---- MODULE Spec2Model ----
(***************************************************************************)
(* A model of the TradingAgents pipeline: the agent graph run by           *)
(* TradingAgentsGraph.propagate (analyst nodes with their tool loops, the  *)
(* two debates, the trader), the retry loop of CustomGoogleGenAIClient,    *)
(* and the FinancialSituationMemory collection.                            *)
(***************************************************************************)
EXTENDS Integers, Sequences, FiniteSets, TLC

VARIABLES
    \* ---- configuration and environment of one TradingAgentsGraph ----
    provider,        \* config["llm_provider"]
    googleKey,       \* GOOGLE_API_KEY is set
    prawCreds,       \* all PRAW_* environment variables are set
    marketTools,     \* the tool list given to create_market_analyst holds get_daily_stock_data
    config,          \* config["max_debate_rounds"] and config["max_risk_discuss_rounds"]
    max_debate_rounds,        \* ConditionalLogic.max_debate_rounds (investment-debate routing)
    max_risk_discuss_rounds,  \* ConditionalLogic.max_risk_discuss_rounds (risk-debate routing)
    \* ---- one propagate run ----
    pc,              \* the graph node that runs next (or the step inside a node)
    messages,        \* AgentState["messages"]
    report,          \* the four report fields of AgentState
    result,          \* the model response of the analyst node that ran last
    loops,           \* tool-call responses produced by the current analyst
    invest,          \* investment_debate_state: round counter and last speaker
    risk,            \* risk_debate_state: round counter and last speaker
    plans,           \* investment_plan, trader_investment_plan, final_trade_decision set?
    abortClass,      \* class of the exception that left propagate ("none" while running)
    abortAt,         \* where that exception was raised
    calls,           \* model and data calls made so far by the node that is running
    embAttempt,      \* loop variable `attempt` of _get_google_embedding
    embSleeps,       \* delays slept by _get_google_embedding in the current call
    \* ---- CustomGoogleGenAIClient ----
    cpc,             \* position inside invoke: "idle", "sending", "sleeping", "done"
    attempt,         \* loop variable `attempt` of invoke
    requests,        \* requests.post calls made by the current invoke
    sleeps,          \* delays slept by the current invoke, in order
    outcome,         \* how the current invoke ended
    lastResp,        \* kind of the last response received
    tools,           \* self.tools ("None" or the name of the bound tool list)
    payloadTools,    \* payload["tools"] of the current invoke ("absent" if not set)
    invokes,         \* number of invoke calls started
    binds,           \* the arguments of the bind_tools calls made so far, in order
    \* ---- FinancialSituationMemory (one collection) ----
    collection,      \* stored records, in insertion order
    assigned,        \* every identifier handed to situation_collection.add, in order
    rejected,        \* records handed to situation_collection.add that were not stored
    mpc,             \* per caller: position inside add_situations
    moffset,         \* per caller: local `offset`
    mbatch,          \* per caller: the batch being added
    adds,            \* number of add_situations calls started
    memories,        \* what the get_memories call that ran last handed back
    \* ---- one process: graph instances, their runs and the log files ----
    toolkit_config,  \* Toolkit._config (class attribute)
    graph_config,    \* self.config of every graph instance constructed
    ticker,          \* per graph instance: self.ticker
    log_states_dict, \* per graph instance: self.log_states_dict
    files,           \* the log files on disk, by (ticker directory, date in the name)
    seen,            \* the run that ran last: its graph and the toolkit configuration it saw
    runs,            \* number of propagate and reflect_and_remember calls started
    curr_state,      \* per graph instance: self.curr_state
    reflected,       \* the reflect_and_remember call, when it is the call that ran last
    \* ---- the data functions ----
    stock_data_cache,  \* StockstatsUtils._stock_data_cache (class attribute)
    data_files,        \* the data files on disk
    ret,               \* the data-function call that ran last and how it ended
    ncalls,            \* number of data-function calls made
    \* ---- signal extraction ----
    decision,          \* the process_signal call that ran last: its text and what it gave
    nsignals,          \* number of process_signal calls made
    \* ---- the market analyst's indicator table ----
    market_state,      \* state["company_of_interest"] and state["trade_date"] read by the node
    raw_data_df,       \* number of rows of the frame get_daily_stock_data handed back
    indicator_values,  \* local dict indicator_values
    data_summary,      \* what the node made of the frame: the table for the model, or the report
    market_pc,         \* position inside the node after the data tool returned
    \* ---- the offline Reddit data ----
    category_dir,      \* the files of the category directory, in os.listdir order
    fetched            \* the fetch_top_from_category call that ran last

gvars == <<provider, googleKey, prawCreds, marketTools, config, max_debate_rounds,
           max_risk_discuss_rounds, pc, messages, report, result, loops, invest,
           risk, plans, abortClass, abortAt, calls, embAttempt, embSleeps>>
cvars == <<cpc, attempt, requests, sleeps, outcome, lastResp, tools, payloadTools, invokes,
           binds>>
mvars == <<collection, assigned, rejected, mpc, moffset, mbatch, adds, memories>>
lvars == <<toolkit_config, graph_config, ticker, log_states_dict, files, seen, runs,
           curr_state, reflected>>
dvars == <<stock_data_cache, data_files, ret, ncalls>>
svars == <<decision, nsignals>>
ivars == <<market_state, raw_data_df, indicator_values, data_summary, market_pc>>
rvars == <<category_dir, fetched>>
fvars == <<svars, ivars, rvars>>
ovars == <<lvars, dvars, fvars>>
vars  == <<gvars, cvars, mvars, ovars>>

----------------------------------------------------------------------------
\* Bounds of the exploration.
MaxRounds == 2        \* largest investment-debate round limit explored
MaxRiskRounds == 4    \* largest risk-debate round limit explored
MaxToolLoops == 2     \* tool-call responses one analyst may produce in a run
MaxInvokes == 3       \* invoke calls explored on one client
MaxBinds == 3         \* bind_tools calls explored on one client
MaxAdds == 3          \* add_situations calls explored on one collection
MaxBatch == 2         \* largest batch handed to add_situations
MaxMatches == 3       \* largest n_matches handed to get_memories
MaxDist == 2          \* embeddings are the points 0..MaxDist of a line
MaxRuns == 3          \* propagate and reflect_and_remember calls explored in one process
MaxCalls == 3         \* data-function calls explored in one process
MaxDay == 3           \* trading days 1..MaxDay
MaxWords == 3         \* longest final-decision text handed to process_signal
MaxSignals == 3       \* process_signal calls explored
MaxRows == 2          \* most rows of a price frame handed to the market analyst
MaxLog == 3           \* longest message log handed to delete_messages on its own
MaxFiles == 2         \* most files in a Reddit category directory
MaxPosts == 2         \* most posts in one subreddit file
MaxLimit == 3         \* largest max_limit handed to fetch_top_from_category

\* Program constants.
max_retries == 5          \* CustomGoogleGenAIClient.invoke
base_delay == 1
emb_max_retries == 5      \* FinancialSituationMemory._get_google_embedding
emb_base_delay == 1
OfflineEnd == 2           \* last day of the offline price file ("2025-03-25")

----------------------------------------------------------------------------
\* Idle values of the parts a specification does not exercise.
ClientIdle ==
    /\ cpc = "idle" /\ attempt = 0 /\ requests = 0 /\ sleeps = <<>>
    /\ outcome = "none" /\ lastResp = "none" /\ tools = "None"
    /\ payloadTools = "absent" /\ invokes = 0 /\ binds = <<>>

Callers == {1, 2}

MemoryIdle ==
    /\ collection = <<>> /\ assigned = <<>> /\ rejected = {}
    /\ mpc = [c \in Callers |-> "idle"]
    /\ moffset = [c \in Callers |-> 0]
    /\ mbatch = [c \in Callers |-> <<>>]
    /\ adds = 0
    /\ memories = [outcome |-> "none"]

\* Graph instances, tickers and dates of the process explored.
Graphs == {1, 2}
Tickers == {"AAPL", "MSFT"}
Dates == {"2024-06-03", "2024-06-04"}

\* A Python dict: a function whose domain is the set of keys present.
EmptyDict == [k \in {} |-> {}]
Put(dict, key, value) ==
    [k \in DOMAIN dict \cup {key} |-> IF k = key THEN value ELSE dict[k]]

\* The configurations handed to TradingAgentsGraph in one process.
SessionConfigs == [online_tools : BOOLEAN]

\* The offline data files: the price file, the Finnhub files, the SimFin files.
OfflineFiles == {"YFin-data", "finnhub_data", "simfin_data"}

NoCall == [fn |-> "none", symbol |-> "none", day |-> 0, online |-> FALSE, outcome |-> "none",
           value |-> "none", file_missing |-> FALSE, dataset_empty |-> FALSE]

DataIdle ==
    /\ stock_data_cache = EmptyDict
    /\ data_files = OfflineFiles
    /\ ret = NoCall
    /\ ncalls = 0

NoDecision == [full_signal |-> <<>>, outcome |-> "none", value |-> "none"]

SignalIdle == decision = NoDecision /\ nsignals = 0

MarketIdle ==
    /\ market_state = [company_of_interest |-> "AAPL", trade_date |-> "2024-06-03"]
    /\ raw_data_df = 0
    /\ indicator_values = EmptyDict
    /\ data_summary = [kind |-> "none"]
    /\ market_pc = "frame"

NoFetch == [category |-> "none", date |-> 0, max_limit |-> 0, query |-> "none",
            outcome |-> "none", error |-> "none", per_file |-> <<>>, all_content |-> <<>>]

RedditIdle == category_dir = <<>> /\ fetched = NoFetch

\* Idle values of the stand-alone functions.
FunctionsIdle == SignalIdle /\ MarketIdle /\ RedditIdle

\* self.curr_state = None
NoState == [company_of_interest |-> "None", trade_date |-> "None",
            final_trade_decision |-> "None"]

NoReflection == [graph |-> 0, state |-> NoState, calls |-> <<>>, outcome |-> "none"]

SessionIdle ==
    /\ toolkit_config = [online_tools |-> TRUE]
    /\ graph_config = EmptyDict
    /\ ticker = [g \in Graphs |-> "None"]
    /\ log_states_dict = [g \in Graphs |-> EmptyDict]
    /\ files = EmptyDict
    /\ seen = [graph |-> 0]
    /\ runs = 0
    /\ curr_state = [g \in Graphs |-> NoState]
    /\ reflected = NoReflection

----------------------------------------------------------------------------
\* The agent graph.

Providers == {"openai", "anthropic", "google", "other"}

Analysts == <<"market", "social", "news", "fundamentals">>
AnalystSet == {Analysts[i] : i \in 1..Len(Analysts)}
ToolLoopAnalysts == {"social", "news", "fundamentals"}

Aborted == <<"aborted">>
Node(n) == <<"node", n>>

HumanMessage(c) == [type |-> "human", tool_calls |-> FALSE, content |-> c]
AIMessage(c, tc) == [type |-> "ai", tool_calls |-> tc, content |-> c]
ToolMessage(c) == [type |-> "tool", tool_calls |-> FALSE, content |-> c]

Last(s) == s[Len(s)]

\* What no step of the graph changes: the configuration, the client and
\* memory objects the other specifications exercise.
env == <<provider, googleKey, prawCreds, marketTools, config, max_debate_rounds,
         max_risk_discuss_rounds, cvars, mvars, ovars>>
emb == <<embAttempt, embSleeps>>

\* What llm.invoke hands to a node: a text answer, a tool call (content ""),
\* or, from CustomGoogleGenAIClient after its last failed attempt, an inline
\* error text.
LLMResponses(withTools) ==
    {AIMessage("text", FALSE)}
    \cup (IF withTools THEN {AIMessage("", TRUE)} ELSE {})
    \cup (IF provider = "google" THEN {AIMessage("Error", FALSE)} ELSE {})

\* CustomGoogleGenAIClient.invoke lets AttributeError/TypeError from a response
\* of unexpected shape escape.
LLMMayRaise == provider = "google"

\* An exception leaves the node and propagate; the state update is not applied.
Raise(class, at, n) ==
    /\ pc' = Aborted
    /\ abortClass' = class
    /\ abortAt' = at
    /\ calls' = n
    /\ UNCHANGED <<env, messages, report, result, loops, invest, risk, plans, emb>>

\* Analyst routing: a response with tool calls goes to the analyst's tool
\* node, any other response to the analyst's message-clearing node.
should_continue(a, msgs) ==
    IF Last(msgs).tool_calls THEN <<"tools", a>> ELSE <<"clear", a>>

Index(a) == CHOOSE i \in 1..Len(Analysts) : Analysts[i] = a

AfterAnalyst(a) ==
    IF Index(a) < Len(Analysts)
    THEN <<"analyst", Analysts[Index(a) + 1]>>
    ELSE Node("Bull Researcher")

\* Investment-debate routing.
should_continue_debate_gt(st) ==
    IF st.count > max_debate_rounds THEN Node("Research Manager")
    ELSE IF st.last = "Bull" THEN Node("Bear Researcher")
    ELSE Node("Bull Researcher")

should_continue_debate(st) ==
    IF st.count >= max_debate_rounds THEN Node("Research Manager")
    ELSE IF st.last = "Bull" THEN Node("Bear Researcher")
    ELSE Node("Bull Researcher")

should_continue_risk_analysis_skip(st) ==
    IF st.count >= max_risk_discuss_rounds THEN Node("Risk Judge")
    ELSE IF st.last = "Risky" THEN Node("Neutral Analyst")
    ELSE IF st.last = "Neutral" THEN Node("Safe Analyst")
    ELSE Node("Risky Analyst")

\* Risk-debate routing: risky -> safe -> neutral -> risky ...
should_continue_risk_analysis(st) ==
    IF st.count >= max_risk_discuss_rounds THEN Node("Risk Judge")
    ELSE IF st.last = "Risky" THEN Node("Safe Analyst")
    ELSE IF st.last = "Safe" THEN Node("Neutral Analyst")
    ELSE Node("Risky Analyst")

InitState ==
    /\ messages = <<>>
    /\ report = [a \in AnalystSet |-> ""]
    /\ result = AIMessage("", FALSE)
    /\ loops = 0
    /\ invest = [count |-> 0, last |-> "none"]
    /\ risk = [count |-> 0, last |-> "none"]
    /\ plans = {}
    /\ abortClass = "none"
    /\ abortAt = "none"
    /\ calls = 0
    /\ embAttempt = 0
    /\ embSleeps = <<>>

\* The round limits of the configurations explored: each option at its
\* smallest and at its largest value, the other option at the opposite end.
ConfigOptions ==
    { [max_debate_rounds |-> 1, max_risk_discuss_rounds |-> MaxRiskRounds],
      [max_debate_rounds |-> MaxRounds, max_risk_discuss_rounds |-> 1] }

\* The configuration handed to TradingAgentsGraph and the environment it
\* runs in.  __init__ builds ConditionalLogic() without arguments, so the two
\* limits routing compares against are that constructor's defaults: values
\* fixed before construction that no option of `config` reaches.
InitGraph ==
    /\ provider \in Providers
    /\ googleKey \in BOOLEAN
    /\ prawCreds \in BOOLEAN
    /\ marketTools \in BOOLEAN
    /\ config \in ConfigOptions
    /\ max_debate_rounds \in 1..MaxRounds
    /\ max_risk_discuss_rounds \in 1..MaxRiskRounds
    /\ pc = <<"init">>
    /\ InitState

\* TradingAgentsGraph.__init__: the provider and its credentials.
Construct ==
    /\ pc = <<"init">>
    /\ IF provider \in {"openai", "anthropic"} \/ (provider = "google" /\ googleKey)
       THEN /\ pc' = <<"ready">>
            /\ UNCHANGED <<env, messages, report, result, loops, invest, risk,
                           plans, abortClass, abortAt, calls, emb>>
       ELSE Raise("config", "init", 0)

\* propagate: the initial state, then the first analyst.
Propagate ==
    /\ pc = <<"ready">>
    /\ messages' = <<HumanMessage("ticker")>>
    /\ pc' = <<"analyst", Analysts[1]>>
    /\ calls' = 0
    /\ UNCHANGED <<env, report, result, loops, invest, risk, plans, abortClass,
                   abortAt, emb>>

\* What the analyst nodes return as their message: the model's response.
AnalystMessage_no_calls(r) == AIMessage(r.content, FALSE)

AnalystMessage(r) == r

\* social_media_analyst_node, news_analyst_node, fundamentals_analyst_node:
\* bind the tools, invoke the model once, return the response and the report.
AnalystNode(a) ==
    /\ a \in ToolLoopAnalysts
    /\ pc = <<"analyst", a>>
    /\ \/ LLMMayRaise /\ Raise("response", a, 1)
       \/ \E r \in LLMResponses(loops < MaxToolLoops) :
            /\ result' = r
            /\ messages' = Append(messages, AnalystMessage(r))
            /\ report' = [report EXCEPT ![a] = IF r.tool_calls THEN "" ELSE r.content]
            /\ loops' = IF r.tool_calls THEN loops + 1 ELSE loops
            /\ calls' = 1
            /\ pc' = should_continue(a, messages')
            /\ UNCHANGED <<env, invest, risk, plans, abortClass, abortAt, emb>>

\* What a tool of the analyst's tool node hands back.  A tool that raises is
\* answered by the tool node with an error observation.  Without PRAW
\* credentials reddit_utils.reddit is None and the online Reddit tool reports
\* that no posts were found.
ToolResults(a) ==
    {"data", "not available", "tool error"}
    \cup (IF a = "social" /\ ~prawCreds THEN {"no posts (no credentials)"} ELSE {})

\* The tool node of an analyst: run the requested tool, append its result.
ToolNode(a) ==
    /\ pc = <<"tools", a>>
    /\ \E o \in ToolResults(a) :
         messages' = Append(messages, ToolMessage(o))
    /\ pc' = <<"analyst", a>>
    /\ calls' = 0
    /\ UNCHANGED <<env, report, result, loops, invest, risk, plans, abortClass,
                   abortAt, emb>>

\* The id under which the log holds each of its messages: the log gives every
\* message it stores an id of its own (here its position in the log).
message_ids(msgs) == [i \in 1..Len(msgs) |-> i]

RemoveMessage(id) == [type |-> "remove", id |-> id]

removal_operations_but_first(msgs) ==
    [i \in 1..(IF Len(msgs) = 0 THEN 0 ELSE Len(msgs) - 1) |->
        RemoveMessage(message_ids(msgs)[i + 1])]

\* removal_operations = [RemoveMessage(id=m.id) for m in messages]
removal_operations(msgs) ==
    [i \in 1..Len(msgs) |-> RemoveMessage(message_ids(msgs)[i])]

\* placeholder = HumanMessage(content="Continue")
placeholder == HumanMessage("Continue")

\* The update {"messages": removals + new} merged into the log: the message
\* stored under the id of each RemoveMessage is deleted, the others keep their
\* order, the new messages are appended.
add_messages(left, removals, new) ==
    LET removed == {removals[i].id : i \in 1..Len(removals)}
        kept == {i \in 1..Len(left) : message_ids(left)[i] \notin removed}
        nth(r) == CHOOSE i \in kept : Cardinality({j \in kept : j < i}) = r - 1
    IN [r \in 1..Cardinality(kept) |-> left[nth(r)]] \o new

\* delete_messages applied to the log: the update it returns, removal
\* operations for every message followed by the placeholder, merged in.
delete_messages(msgs) ==
    add_messages(msgs, removal_operations(msgs), <<placeholder>>)

MsgClear(a) ==
    /\ pc = <<"clear", a>>
    /\ messages' = delete_messages(messages)
    /\ loops' = 0
    /\ calls' = 0
    /\ pc' = AfterAnalyst(a)
    /\ UNCHANGED <<env, report, result, invest, risk, plans, abortClass, abortAt, emb>>

MarketReturn_model_message(rep) ==
    /\ messages' = Append(messages, result)
    /\ report' = [report EXCEPT !["market"] = rep]
    /\ pc' = should_continue("market", messages')

\* The market analyst's return: a message built from the report text.
MarketReturn(rep) ==
    /\ messages' = Append(messages, AIMessage(rep, FALSE))
    /\ report' = [report EXCEPT !["market"] = rep]
    /\ pc' = should_continue("market", messages')

\* market_analyst_node, first model call.
MarketInvoke ==
    /\ pc = <<"analyst", "market">>
    /\ \/ LLMMayRaise /\ Raise("response", "market", 1)
       \/ \E r \in LLMResponses(TRUE) :
            /\ result' = r
            /\ calls' = 1
            /\ IF ~r.tool_calls
               THEN /\ messages' = Append(messages, AnalystMessage(r))
                    /\ report' = [report EXCEPT !["market"] = r.content]
                    /\ pc' = should_continue("market", messages')
               ELSE /\ pc' = <<"inside", "market", "lookup">>
                    /\ UNCHANGED <<messages, report>>
            /\ UNCHANGED <<env, loops, invest, risk, plans, abortClass, abortAt, emb>>

\* market_analyst_node, the search for get_daily_stock_data in `tools`.
MarketLookup_soft ==
    /\ pc = <<"inside", "market", "lookup">>
    /\ IF ~marketTools
       THEN /\ MarketReturn("Could not retrieve")
            /\ UNCHANGED <<env, result, loops, invest, risk, plans, abortClass,
                           abortAt, calls, emb>>
       ELSE /\ pc' = <<"inside", "market", "fetch">>
            /\ UNCHANGED <<env, messages, report, result, loops, invest, risk,
                           plans, abortClass, abortAt, calls, emb>>

MarketLookup ==
    /\ pc = <<"inside", "market", "lookup">>
    /\ IF ~marketTools
       THEN Raise("config", "market", calls)
       ELSE /\ pc' = <<"inside", "market", "fetch">>
            /\ UNCHANGED <<env, messages, report, result, loops, invest, risk,
                           plans, abortClass, abortAt, calls, emb>>

\* market_analyst_node, data_tool(**tool_call['args']): arguments that do not
\* fit the function's parameters raise TypeError at the call; failures inside
\* get_daily_stock_data are caught there and give an empty frame.
MarketFetch ==
    /\ pc = <<"inside", "market", "fetch">>
    /\ \/ Raise("tool", "market", calls)
       \/ /\ calls' = calls + 1
          /\ \/ MarketReturn("Could not retrieve")
             \/ /\ pc' = <<"inside", "market", "report">>
                /\ UNCHANGED <<messages, report>>
          /\ UNCHANGED <<env, result, loops, invest, risk, plans, abortClass,
                         abortAt, emb>>

\* market_analyst_node, the indicator table and the reporting call.
\* `reporting_prompt | llm` needs a Runnable: with the custom Google client
\* the pipe raises TypeError.
MarketReporting ==
    /\ pc = <<"inside", "market", "report">>
    /\ IF provider = "google"
       THEN Raise("type", "market", calls)
       ELSE /\ \E r \in LLMResponses(FALSE) : MarketReturn(r.content)
            /\ calls' = calls + 1
            /\ UNCHANGED <<env, result, loops, invest, risk, plans, abortClass,
                           abortAt, emb>>

\* A debater's turn: the response joins the histories, the round counter
\* goes up by one and the speaker is recorded.
DebateTurn_same_count(st, who) == [count |-> st.count, last |-> who]

DebateTurn(st, who) == [count |-> st.count + 1, last |-> who]

BullResearcher ==
    /\ pc = Node("Bull Researcher")
    /\ invest' = DebateTurn(invest, "Bull")
    /\ pc' = should_continue_debate(invest')
    /\ calls' = 1
    /\ UNCHANGED <<env, messages, report, result, loops, risk, plans, abortClass,
                   abortAt, emb>>

BearResearcher ==
    /\ pc = Node("Bear Researcher")
    /\ invest' = DebateTurn(invest, "Bear")
    /\ pc' = should_continue_debate(invest')
    /\ calls' = 1
    /\ UNCHANGED <<env, messages, report, result, loops, risk, plans, abortClass,
                   abortAt, emb>>

\* The investment judge: its decision becomes investment_plan.
ResearchManager ==
    /\ pc = Node("Research Manager")
    /\ plans' = plans \cup {"investment_plan"}
    /\ pc' = Node("Trader")
    /\ calls' = 0
    /\ UNCHANGED <<env, messages, report, result, loops, invest, risk, abortClass,
                   abortAt, emb>>

\* Delay slept by _get_google_embedding after a failed attempt (counted from 0).
EmbedDelay(att) == emb_base_delay * (att + 1)

\* trader_node -> get_memories -> get_embedding, Google provider:
\* one iteration of the retry loop of _get_google_embedding.
EmbedGoogle ==
    /\ pc = Node("Trader")
    /\ provider = "google"
    /\ \/ /\ pc' = <<"inside", "Trader", "invoke">>
          /\ calls' = calls + 1
          /\ UNCHANGED <<env, messages, report, result, loops, invest, risk,
                         plans, abortClass, abortAt, emb>>
       \/ \E class \in {"transient", "response"} :
            IF embAttempt + 1 = emb_max_retries
            THEN Raise(class, "Trader", calls + 1)
            ELSE /\ embSleeps' = Append(embSleeps, EmbedDelay(embAttempt))
                 /\ embAttempt' = embAttempt + 1
                 /\ calls' = calls + 1
                 /\ UNCHANGED <<env, pc, messages, report, result, loops, invest,
                                risk, plans, abortClass, abortAt>>

\* trader_node -> get_memories -> get_embedding, OpenAI-compatible provider:
\* _get_openai_embedding makes one call and lets its exception pass.
EmbedOpenAI ==
    /\ pc = Node("Trader")
    /\ provider # "google"
    /\ \/ /\ pc' = <<"inside", "Trader", "invoke">>
          /\ calls' = calls + 1
          /\ UNCHANGED <<env, messages, report, result, loops, invest, risk,
                         plans, abortClass, abortAt, emb>>
       \/ Raise("transient", "Trader", calls + 1)

\* trader_node after get_memories: the model call and the returned update.
TraderInvoke ==
    /\ pc = <<"inside", "Trader", "invoke">>
    /\ \/ LLMMayRaise /\ Raise("response", "Trader", calls + 1)
       \/ \E r \in LLMResponses(FALSE) :
            /\ messages' = Append(messages, r)
            /\ plans' = plans \cup {"trader_investment_plan"}
            /\ pc' = Node("Risky Analyst")
            /\ calls' = 0
            /\ embAttempt' = 0
            /\ embSleeps' = <<>>
            /\ UNCHANGED <<env, report, result, loops, invest, risk, abortClass,
                           abortAt>>

RiskRoles == <<"Risky", "Safe", "Neutral">>

RiskTurn(i) ==
    /\ pc = Node(RiskRoles[i] \o " Analyst")
    /\ risk' = DebateTurn(risk, RiskRoles[i])
    /\ pc' = should_continue_risk_analysis(risk')
    /\ calls' = 1
    /\ UNCHANGED <<env, messages, report, result, loops, invest, plans, abortClass,
                   abortAt, emb>>

\* The risk judge: its decision becomes final_trade_decision; the graph ends.
RiskJudge ==
    /\ pc = Node("Risk Judge")
    /\ plans' = plans \cup {"final_trade_decision"}
    /\ pc' = <<"end">>
    /\ calls' = 0
    /\ UNCHANGED <<env, messages, report, result, loops, invest, risk, abortClass,
                   abortAt, emb>>

\* _create_tool_nodes: the names of the tools in analyst_tools, per analyst,
\* for a provider (the OpenAI web-search tools are added for every provider
\* but Google).
analyst_tools(prov) ==
    LET openai(names) == IF prov = "google" THEN {} ELSE names
    IN [market |-> {"get_YFin_data_online", "get_stockstats_indicators_report_online",
                    "get_YFin_data", "get_stockstats_indicators_report"},
        social |-> {"get_reddit_stock_info_online", "get_reddit_stock_info_offline"}
                   \cup openai({"get_stock_news_openai"}),
        news |-> {"get_finnhub_news_online", "get_google_news", "get_finnhub_news",
                  "get_reddit_news"} \cup openai({"get_global_news_openai"}),
        fundamentals |-> {"get_income_statement_online", "get_balance_sheet_online",
                          "get_cashflow_online", "get_finnhub_company_insider_sentiment",
                          "get_finnhub_company_insider_transactions",
                          "get_simfin_balance_sheet_offline",
                          "get_simfin_cashflow_offline",
                          "get_simfin_income_stmt_offline"}
                         \cup openai({"get_fundamentals_openai"})]

Init == InitGraph /\ ClientIdle /\ MemoryIdle /\ SessionIdle /\ DataIdle /\ FunctionsIdle

Next ==
    \/ Construct
    \/ Propagate
    \/ \E a \in AnalystSet : AnalystNode(a)
    \/ \E a \in AnalystSet : ToolNode(a)
    \/ \E a \in AnalystSet : MsgClear(a)
    \/ MarketInvoke
    \/ MarketLookup
    \/ MarketFetch
    \/ MarketReporting
    \/ BullResearcher
    \/ BearResearcher
    \/ ResearchManager
    \/ EmbedGoogle
    \/ EmbedOpenAI
    \/ TraderInvoke
    \/ \E i \in 1..3 : RiskTurn(i)
    \/ RiskJudge

Spec == Init /\ [][Next]_vars

\* The graph library runs the node an edge leads to: a debater or judge that
\* is next does get its turn.
SpecFair ==
    /\ Spec
    /\ WF_vars(BullResearcher) /\ WF_vars(BearResearcher) /\ WF_vars(ResearchManager)
    /\ \A i \in 1..3 : WF_vars(RiskTurn(i))
    /\ WF_vars(RiskJudge)

----------------------------------------------------------------------------
\* CustomGoogleGenAIClient: bind_tools and the retry loop of invoke.

GraphIdle ==
    /\ provider = "google" /\ googleKey = TRUE /\ prawCreds = TRUE
    /\ marketTools = TRUE /\ max_debate_rounds = 1 /\ max_risk_discuss_rounds = 1
    /\ config = [max_debate_rounds |-> 1, max_risk_discuss_rounds |-> 1]
    /\ pc = <<"init">>
    /\ InitState

\* What one attempt can meet:
\*   "text", "functionCall"  a well-formed answer;
\*   "connection"            requests.post or raise_for_status raises a
\*                           RequestException (HTTPError is one);
\*   "index"                 an empty candidates or parts list (IndexError);
\*   "shape"                 a body that is no JSON object, or a candidate whose
\*                           content is null: .get on it raises AttributeError.
ResponseKinds == {"text", "functionCall", "connection", "index", "shape"}
Success == {"text", "functionCall"}

ToolLists == {"empty", "social tools", "news tools"}

\* Delay slept by invoke after a failed attempt (attempt counted from 0).
Delay_fixed(att) == base_delay

Delay(att) == base_delay * (att + 1)

BindTools_clear(ts) ==
    /\ cpc \in {"idle", "done"}
    /\ Len(binds) < MaxBinds
    /\ binds' = Append(binds, ts)
    /\ tools' = IF ts = "empty" THEN "None" ELSE ts
    /\ UNCHANGED <<gvars, mvars, ovars, cpc, attempt, requests, sleeps, outcome,
                   lastResp, payloadTools, invokes>>

\* bind_tools(tools): an empty list returns at once.
BindTools(ts) ==
    /\ cpc \in {"idle", "done"}
    /\ Len(binds) < MaxBinds
    /\ binds' = Append(binds, ts)
    /\ tools' = IF ts = "empty" THEN tools ELSE ts
    /\ UNCHANGED <<gvars, mvars, ovars, cpc, attempt, requests, sleeps, outcome,
                   lastResp, payloadTools, invokes>>

\* invoke, up to the retry loop: the payload is built.
Invoke ==
    /\ cpc \in {"idle", "done"}
    /\ invokes < MaxInvokes
    /\ invokes' = invokes + 1
    /\ payloadTools' = IF tools # "None" THEN tools ELSE "absent"
    /\ cpc' = "sending"
    /\ attempt' = 0
    /\ requests' = 0
    /\ sleeps' = <<>>
    /\ outcome' = "none"
    /\ lastResp' = "none"
    /\ UNCHANGED <<gvars, mvars, ovars, tools, binds>>

\* How the except clauses of invoke treat a response kind.
Handled(r) == r \in {"connection", "index"}

ErrorText(r) ==
    IF r = "connection" THEN "Error: Could not get response from Google AI."
    ELSE "Error: Could not parse the response from Google AI."

\* invoke, one pass of the loop body up to the return or the except clause.
Attempt ==
    /\ cpc = "sending"
    /\ \E r \in ResponseKinds :
         /\ lastResp' = r
         /\ requests' = requests + 1
         /\ IF r \in Success
            THEN cpc' = "done" /\ outcome' = r
            ELSE IF Handled(r)
            THEN IF attempt + 1 = max_retries
                 THEN cpc' = "done" /\ outcome' = ErrorText(r)
                 ELSE cpc' = "sleeping" /\ outcome' = outcome
            ELSE cpc' = "done" /\ outcome' = "raised"
    /\ UNCHANGED <<gvars, mvars, ovars, attempt, sleeps, tools, payloadTools, invokes,
                   binds>>

\* invoke, the incremental backoff at the end of the loop body.
Backoff ==
    /\ cpc = "sleeping"
    /\ sleeps' = Append(sleeps, Delay(attempt))
    /\ attempt' = attempt + 1
    /\ cpc' = "sending"
    /\ UNCHANGED <<gvars, mvars, ovars, requests, outcome, lastResp, tools, payloadTools,
                   invokes, binds>>

InitClient == GraphIdle /\ ClientIdle /\ MemoryIdle /\ SessionIdle /\ DataIdle /\ FunctionsIdle

NextClient ==
    \/ \E ts \in ToolLists : BindTools(ts)
    \/ Invoke
    \/ Attempt
    \/ Backoff

SpecClient == InitClient /\ [][NextClient]_vars

\* invoke runs to its end: requests.post has a timeout and time.sleep returns.
SpecClientFair == SpecClient /\ WF_vars(Attempt) /\ WF_vars(Backoff)

----------------------------------------------------------------------------
\* FinancialSituationMemory.add_situations on one collection.

\* situation_collection.count()
Count(coll) == Len(coll)

Ids(coll) == {coll[i].id : i \in 1..Len(coll)}

\* offset = self.situation_collection.count()
Offset_zero(coll) == 0

Offset(coll) == Count(coll)

\* ids.append(str(offset + i)) for i = 0, 1, ...: str is one-to-one on the
\* naturals, so an identifier is kept as the number it prints.
BatchIds(off, batch) == [i \in 1..Len(batch) |-> off + (i - 1)]

RECURSIVE AppendAll(_, _, _, _)
\* The records of `batch` with index in `keep`, appended in order to `coll`.
AppendAll(coll, batch, idsOf, keep) ==
    IF batch = <<>> THEN coll
    ELSE LET n == Len(batch)
             front == AppendAll(coll, SubSeq(batch, 1, n - 1),
                                SubSeq(idsOf, 1, n - 1), keep)
         IN IF n \in keep
            THEN Append(front, [id |-> idsOf[n], doc |-> batch[n]])
            ELSE front

\* add_situations, first statement: the offset is read.  `exclusive` tells
\* whether the call starts only when no other call is in progress.
AddStart(c, n, exclusive) ==
    /\ mpc[c] = "idle"
    /\ exclusive => \A d \in Callers : mpc[d] = "idle"
    /\ adds < MaxAdds
    /\ adds' = adds + 1
    /\ moffset' = [moffset EXCEPT ![c] = Offset(collection)]
    /\ mbatch' = [mbatch EXCEPT ![c] = [i \in 1..n |-> <<adds + 1, i>>]]
    /\ mpc' = [mpc EXCEPT ![c] = "embedding"]
    /\ memories' = [outcome |-> "none"]
    /\ UNCHANGED <<gvars, cvars, ovars, collection, assigned, rejected>>

\* add_situations, the loop: identifiers and embeddings are computed.  An
\* embedding call that raises ends add_situations; nothing was stored.
AddEmbed(c) ==
    /\ mpc[c] = "embedding"
    /\ \/ mpc' = [mpc EXCEPT ![c] = "inserting"]
       \/ /\ mbatch[c] # <<>>
          /\ mpc' = [mpc EXCEPT ![c] = "idle"]
    /\ UNCHANGED <<gvars, cvars, ovars, collection, assigned, rejected, moffset, mbatch,
                   adds, memories>>

\* add_situations, situation_collection.add(...).  A record whose identifier
\* is already stored is not stored again: depending on the chromadb version
\* the call raises DuplicateIDError and stores nothing of the batch, or it
\* skips the records with a known identifier.
AddInsert(c) ==
    /\ mpc[c] = "inserting"
    /\ LET batch == mbatch[c]
           ids == BatchIds(moffset[c], batch)
           fresh == {i \in 1..Len(batch) : ids[i] \notin Ids(collection)}
           all == 1..Len(batch)
       IN /\ assigned' = assigned \o ids
          /\ \E keep \in (IF fresh = all THEN {all} ELSE {{}, fresh}) :
               /\ collection' = AppendAll(collection, batch, ids, keep)
               /\ rejected' = rejected \cup {batch[i] : i \in all \ keep}
    /\ mpc' = [mpc EXCEPT ![c] = "idle"]
    /\ UNCHANGED <<gvars, cvars, ovars, moffset, mbatch, adds, memories>>

\* get_embedding: the point a text is mapped to.  Every text has one point;
\* different texts may share a point.
Embedding(doc) == (doc[1] + 2 * doc[2]) % (MaxDist + 1)

Distance(e1, e2) == IF e1 >= e2 THEN e1 - e2 ELSE e2 - e1

Min(a, b) == IF a <= b THEN a ELSE b

\* situation_collection.query(query_embeddings=[q], n_results=n, ...): the
\* stored records nearest to q, nearest first (records at the same distance in
\* insertion order), at most n of them and no more than are stored.
query(coll, q, n) ==
    LET N == Len(coll)
        dist == [i \in 1..N |-> Distance(Embedding(coll[i].doc), q)]
        Rank(i) == 1 + Cardinality({j \in 1..N :
                          dist[j] < dist[i] \/ (dist[j] = dist[i] /\ j < i)})
        order == [r \in 1..N |-> CHOOSE i \in 1..N : Rank(i) = r]
    IN [r \in 1..Min(n, N) |-> [document |-> coll[order[r]].doc,
                                distance |-> dist[order[r]]]]

similarity_score_distance(d) == d

\* "similarity_score": 1 - results["distances"][0][i]
similarity_score(d) == 1 - d

\* The loop of get_memories: one entry per result, in the order of the results.
matched_results(results) ==
    [i \in 1..Len(results) |->
        [matched_situation |-> results[i].document,
         similarity_score |-> similarity_score(results[i].distance)]]

\* get_memories(current_situation, n_matches): the embedding of the query
\* text is computed (a call that raises ends get_memories), the collection
\* is queried and the matches are handed back.  The call changes nothing in
\* the collection: one call between two add_situations calls is explored.
GetMemories(q, k) ==
    /\ \A c \in Callers : mpc[c] = "idle"
    /\ memories.outcome = "none"
    /\ \/ memories' = [outcome |-> "raised", at |-> "get_embedding"]
       \/ memories' = [outcome |-> "returned", n_matches |-> k,
                       matches |-> matched_results(query(collection, q, k))]
    /\ UNCHANGED <<gvars, cvars, ovars, collection, assigned, rejected, mpc, moffset,
                   mbatch, adds>>

InitMemory == GraphIdle /\ ClientIdle /\ MemoryIdle /\ SessionIdle /\ DataIdle /\ FunctionsIdle

\* The program as written: one add_situations call at a time.
AddStartSeq(c, n) == AddStart(c, n, TRUE)

NextMemory ==
    \/ \E c \in Callers, n \in 0..MaxBatch : AddStartSeq(c, n)
    \/ \E c \in Callers : AddEmbed(c)
    \/ \E c \in Callers : AddInsert(c)
    \/ \E q \in 0..MaxDist, k \in 1..MaxMatches : GetMemories(q, k)

SpecMemory == InitMemory /\ [][NextMemory]_vars

\* Two callers whose add_situations calls may interleave.
AddStartPar(c, n) == AddStart(c, n, FALSE)

NextMemoryPar ==
    \/ \E c \in Callers, n \in 0..MaxBatch : AddStartPar(c, n)
    \/ \E c \in Callers : AddEmbed(c)
    \/ \E c \in Callers : AddInsert(c)

SpecMemoryPar == InitMemory /\ [][NextMemoryPar]_vars

----------------------------------------------------------------------------
\* One process: graph instances are constructed and propagate is called on
\* them, one call at a time; each call that completes logs its final state.

Decisions == {"BUY", "SELL"}

\* Toolkit.update_config: cls._config.update(config)
update_config(cur, cfg) ==
    [k \in DOMAIN cur |-> IF k \in DOMAIN cfg THEN cfg[k] ELSE cur[k]]

\* TradingAgentsGraph(config=cfg): self.config is set, Toolkit(config) updates
\* the class-level configuration, the log dictionary starts empty.
ConstructGraph(g, cfg) ==
    /\ g \notin DOMAIN graph_config
    /\ graph_config' = Put(graph_config, g, cfg)
    /\ toolkit_config' = update_config(toolkit_config, cfg)
    /\ ticker' = [ticker EXCEPT ![g] = "None"]
    /\ log_states_dict' = [log_states_dict EXCEPT ![g] = EmptyDict]
    /\ curr_state' = [curr_state EXCEPT ![g] = NoState]
    /\ reflected' = NoReflection
    /\ UNCHANGED <<gvars, cvars, mvars, dvars, fvars, files, seen, runs>>

\* The part of the final state that _log_state stores under the date.
LogEntry(final_state) ==
    [company_of_interest |-> final_state.company_of_interest,
     trade_date |-> final_state.trade_date,
     final_trade_decision |-> final_state.final_trade_decision]

\* _log_state's file: eval_results/{self.ticker}/.../full_states_log_{trade_date}.json
LogFile(t, trade_date) == <<t, trade_date>>

\* propagate(company_name, trade_date) on graph g: self.ticker is set, the
\* graph runs (its nodes read the toolkit's configuration), and if the run
\* completes _log_state stores its entry under str(trade_date) and writes the
\* whole dictionary, mode "w", to the file named by self.ticker and the date.
RunPropagate(g, company_name, trade_date) ==
    /\ g \in DOMAIN graph_config
    /\ runs < MaxRuns
    /\ runs' = runs + 1
    /\ ticker' = [ticker EXCEPT ![g] = company_name]
    /\ seen' = [graph |-> g, config |-> toolkit_config]
    /\ \/ UNCHANGED <<log_states_dict, files, curr_state>>
       \/ \E v \in Decisions :
            LET final_state == [company_of_interest |-> company_name,
                                trade_date |-> trade_date,
                                final_trade_decision |-> v]
            IN /\ curr_state' = [curr_state EXCEPT ![g] = final_state]
               /\ log_states_dict' =
                     [log_states_dict EXCEPT
                        ![g] = Put(@, trade_date, LogEntry(final_state))]
               /\ files' = Put(files, LogFile(ticker'[g], trade_date),
                               log_states_dict'[g])
    /\ reflected' = NoReflection
    /\ UNCHANGED <<gvars, cvars, mvars, dvars, fvars, toolkit_config, graph_config>>

ReflectionCalls_one_memory ==
    [i \in 1..5 |->
        [role |-> <<"bull_researcher", "bear_researcher", "trader", "invest_judge",
                    "risk_manager">>[i],
         memory |-> "bull_memory"]]

\* The calls reflect_and_remember makes, in order: the reflector method and
\* the memory handed to it.
ReflectionCalls ==
    <<[role |-> "bull_researcher", memory |-> "bull_memory"],
      [role |-> "bear_researcher", memory |-> "bear_memory"],
      [role |-> "trader", memory |-> "trader_memory"],
      [role |-> "invest_judge", memory |-> "invest_judge_memory"],
      [role |-> "risk_manager", memory |-> "risk_manager_memory"]>>

\* reflect_and_remember(returns_losses) on graph g: the reflector methods
\* are called one after the other with self.curr_state; a call that raises
\* (the model call, the memory's embedding call, or a curr_state that is
\* still None) ends reflect_and_remember.
ReflectAndRemember(g) ==
    /\ g \in DOMAIN graph_config
    /\ runs < MaxRuns
    /\ runs' = runs + 1
    /\ \E n \in 1..Len(ReflectionCalls), ended \in {"returned", "raised"} :
         /\ ended = "returned" => n = Len(ReflectionCalls)
         /\ curr_state[g] = NoState => (n = 1 /\ ended = "raised")
         /\ reflected' = [graph |-> g, state |-> curr_state[g],
                          calls |-> SubSeq(ReflectionCalls, 1, n), outcome |-> ended]
    /\ UNCHANGED <<gvars, cvars, mvars, dvars, fvars, toolkit_config, graph_config,
                   ticker, log_states_dict, files, seen, curr_state>>

InitSession == GraphIdle /\ ClientIdle /\ MemoryIdle /\ SessionIdle /\ DataIdle /\ FunctionsIdle

NextSession ==
    \/ \E g \in Graphs, cfg \in SessionConfigs : ConstructGraph(g, cfg)
    \/ \E g \in Graphs, t \in Tickers, d \in Dates : RunPropagate(g, t, d)
    \/ \E g \in Graphs : ReflectAndRemember(g)

SpecSession == InitSession /\ [][NextSession]_vars

----------------------------------------------------------------------------
\* The data functions of dataflows: stockstats_utils, finnhub_utils, interface.

Days == 1..MaxDay

NotTradingDay == "N/A: Not a trading day (weekend or holiday) or data not available for this date."
FileNotFoundText == "Error: Offline data file not found"
InsiderNotFoundText == "Offline Finnhub insider data not found. This feature requires a local data cache."

\* The frame get_stock_stats loads when the symbol is not cached: the offline
\* price file (days up to OfflineEnd), or the download yf.download(symbol,
\* start, end=curr_date), whose `end` is exclusive.
StockFrame(day, online) ==
    IF online THEN [source |-> "online", rows |-> {x \in Days : x < day}]
    ELSE [source |-> "offline", rows |-> {x \in Days : x <= OfflineEnd}]

\* Name of the file the online branch saves its download to.
OnlineFile(symbol, day) == symbol \o "-YFin-data-" \o ToString(day)

\* StockstatsUtils.get_stock_stats(symbol, indicator, curr_date, data_dir,
\* online) run on a given cache and disk: how it ends, what it hands back and
\* what the cache holds afterwards.
stock_stats(cache, disk, symbol, day, online) ==
    LET hit == symbol \in DOMAIN cache
        df == IF hit THEN cache[symbol] ELSE StockFrame(day, online)
    IN IF ~hit /\ ~online /\ "YFin-data" \notin disk
       THEN [outcome |-> "raised",
             value |-> "Exception: Stockstats fail: Yahoo Finance data not fetched yet!",
             file_missing |-> TRUE, cache |-> cache]
       ELSE [outcome |-> "returned",
             value |-> IF day \in df.rows THEN "value of day " \o ToString(day)
                       ELSE NotTradingDay,
             file_missing |-> FALSE, cache |-> Put(cache, symbol, df)]

get_stock_stats(symbol, day, online) ==
    /\ ncalls < MaxCalls
    /\ ncalls' = ncalls + 1
    /\ LET r == stock_stats(stock_data_cache, data_files, symbol, day, online)
       IN /\ stock_data_cache' = r.cache
          /\ data_files' = IF online /\ symbol \notin DOMAIN stock_data_cache
                           THEN data_files \cup {OnlineFile(symbol, day)}
                           ELSE data_files
          /\ ret' = [fn |-> "get_stock_stats", symbol |-> symbol, day |-> day,
                     online |-> online, outcome |-> r.outcome, value |-> r.value,
                     file_missing |-> r.file_missing, dataset_empty |-> FALSE]
    /\ UNCHANGED <<gvars, cvars, mvars, lvars, fvars>>

\* finnhub_utils.get_data_in_range: the file is opened and the entries in
\* the date range are kept.
get_data_in_range(disk, empty) ==
    IF "finnhub_data" \notin disk
    THEN [outcome |-> "raised", value |-> "FileNotFoundError"]
    ELSE [outcome |-> "returned", value |-> IF empty THEN "{}" ELSE "entries"]

\* A data function that only reads: ret records the call, the rest stays.
DataCall(fn, online, ended, value, missing, empty) ==
    /\ ncalls < MaxCalls
    /\ ncalls' = ncalls + 1
    /\ ret' = [fn |-> fn, symbol |-> "AAPL", day |-> 1, online |-> online,
               outcome |-> ended, value |-> value,
               file_missing |-> missing, dataset_empty |-> empty]
    /\ UNCHANGED <<gvars, cvars, mvars, lvars, fvars, stock_data_cache, data_files>>

\* interface.get_finnhub_news
get_finnhub_news(empty) ==
    LET found == get_data_in_range(data_files, empty)
    IN IF found.outcome = "raised"
       THEN DataCall("get_finnhub_news", FALSE, "raised", found.value, TRUE, FALSE)
       ELSE DataCall("get_finnhub_news", FALSE, "returned",
                         IF found.value = "{}" THEN "" ELSE "## News",
                         FALSE, empty)

\* interface.get_finnhub_company_insider_sentiment and
\* interface.get_finnhub_company_insider_transactions
get_finnhub_company_insider(kind, empty) ==
    LET data == get_data_in_range(data_files, empty)
        fn == "get_finnhub_company_insider_" \o kind
    IN IF data.outcome = "raised"
       THEN DataCall(fn, FALSE, "raised", data.value, TRUE, FALSE)
       ELSE DataCall(fn, FALSE, "returned",
                         IF data.value = "{}" THEN InsiderNotFoundText
                         ELSE "## Insider data",
                         FALSE, empty)

\* interface.get_simfin_balance_sheet_offline, get_simfin_cashflow_offline,
\* get_simfin_income_stmt_offline
get_simfin_offline(statement, empty) ==
    LET fn == "get_simfin_" \o statement \o "_offline"
    IN IF "simfin_data" \notin data_files
       THEN DataCall(fn, FALSE, "returned", FileNotFoundText, TRUE, FALSE)
       ELSE DataCall(fn, FALSE, "returned",
                         IF empty THEN "" ELSE "## Statement", FALSE, empty)

\* interface.get_YFin_data(symbol, start_date, end_date)
get_YFin_data(end_date, empty) ==
    IF "YFin-data" \notin data_files
    THEN DataCall("get_YFin_data", FALSE, "returned", FileNotFoundText, TRUE, FALSE)
    ELSE IF end_date > OfflineEnd
    THEN DataCall("get_YFin_data", FALSE, "raised",
                      "Exception: outside of the data range", FALSE, FALSE)
    ELSE DataCall("get_YFin_data", FALSE, "returned",
                      IF empty THEN "DataFrame without rows" ELSE "DataFrame",
                      FALSE, empty)

\* interface.get_google_news
get_google_news(empty) ==
    LET news_results == IF empty THEN 0 ELSE 1
    IN IF news_results = 0
       THEN DataCall("get_google_news", TRUE, "returned", "", FALSE, empty)
       ELSE DataCall("get_google_news", TRUE, "returned", "## Google News",
                     FALSE, empty)

InitData ==
    /\ GraphIdle /\ ClientIdle /\ MemoryIdle /\ SessionIdle /\ FunctionsIdle
    /\ stock_data_cache = EmptyDict
    /\ data_files \in SUBSET OfflineFiles
    /\ ret = NoCall
    /\ ncalls = 0

NextData ==
    \/ \E symbol \in Tickers, day \in Days, online \in BOOLEAN :
          get_stock_stats(symbol, day, online)
    \/ \E empty \in BOOLEAN : get_finnhub_news(empty)
    \/ \E kind \in {"sentiment", "transactions"}, empty \in BOOLEAN :
          get_finnhub_company_insider(kind, empty)
    \/ \E statement \in {"balance_sheet", "cashflow", "income_stmt"}, empty \in BOOLEAN :
          get_simfin_offline(statement, empty)
    \/ \E end_date \in Days, empty \in BOOLEAN : get_YFin_data(end_date, empty)
    \/ \E empty \in BOOLEAN : get_google_news(empty)

SpecData == InitData /\ [][NextData]_vars

----------------------------------------------------------------------------
\* Signal extraction: TradingAgentsGraph.process_signal hands the final
\* decision text to SignalProcessor.process_signal and returns what it gives.

\* A final-decision text, word by word: the marker phrase, the three signal
\* words, and any other word.
Marker == "FINAL TRANSACTION PROPOSAL:"
Signals == {"BUY", "SELL", "HOLD"}
Words == {Marker, "other"} \cup Signals

RECURSIVE SeqsOf(_, _)
\* The sequences over S of length at most n.
SeqsOf(S, n) ==
    IF n = 0 THEN {<<>>}
    ELSE LET shorter == SeqsOf(S, n - 1)
         IN shorter \cup {Append(t, w) : t \in {u \in shorter : Len(u) = n - 1}, w \in S}

Texts == SeqsOf(Words, MaxWords)

\* What a text without a readable signal yields.
Fallback == "HOLD"

SignalProcessor_process_signal_empty(full_signal) ==
    LET at == {i \in 1..Len(full_signal) : full_signal[i] = Marker}
    IN IF at = {} THEN ""
       ELSE LET first == CHOOSE i \in at : \A j \in at : i <= j
            IN IF first < Len(full_signal) /\ full_signal[first + 1] \in Signals
               THEN full_signal[first + 1]
               ELSE ""

\* SignalProcessor.process_signal: the marker phrase is located (its first
\* occurrence) and the signal word that follows it is the signal; a text
\* without the marker, or with no signal word after it, yields the fallback.
SignalProcessor_process_signal(full_signal) ==
    LET at == {i \in 1..Len(full_signal) : full_signal[i] = Marker}
    IN IF at = {} THEN Fallback
       ELSE LET first == CHOOSE i \in at : \A j \in at : i <= j
            IN IF first < Len(full_signal) /\ full_signal[first + 1] \in Signals
               THEN full_signal[first + 1]
               ELSE Fallback

\* TradingAgentsGraph.process_signal
process_signal(full_signal) == SignalProcessor_process_signal(full_signal)

ProcessSignal(full_signal) ==
    /\ nsignals < MaxSignals
    /\ nsignals' = nsignals + 1
    /\ decision' = [full_signal |-> full_signal, outcome |-> "returned",
                    value |-> process_signal(full_signal)]
    /\ UNCHANGED <<gvars, cvars, mvars, lvars, dvars, ivars, rvars>>

InitSignal ==
    /\ GraphIdle /\ ClientIdle /\ MemoryIdle /\ SessionIdle /\ DataIdle
    /\ FunctionsIdle

NextSignal == \E full_signal \in Texts : ProcessSignal(full_signal)

SpecSignal == InitSignal /\ [][NextSignal]_vars

----------------------------------------------------------------------------
\* market_analyst_node after data_tool(**tool_call['args']) has returned:
\* the indicator loop and the table handed to the model for narration.

\* indicators_to_calculate, in the order of the dict.
Indicators == <<"rsi", "macd", "boll_ub", "boll_lb", "close_50_sma", "close_200_sma">>

\* What stock_df[name].iloc[-1] does on a frame with rows: the indicator
\* library hands back a number or nan, or it raises.
IndicatorOutcomes == {"number", "nan", "raised"}

\* indicator_values[key] after one pass of the loop body: the value, or the
\* text the except clause stores.
IndicatorValue(o) == IF o = "raised" THEN "Error calculating: e" ELSE o

\* val_str: a float is formatted with two decimals (nan formats as "nan"),
\* any other value is printed by str.
val_str(value) == IF value = "number" THEN "0.00" ELSE value

\* The first line of data_summary.
SummaryTitle(st) == <<"AAPL", "2025-08-14">>

\* if raw_data_df.empty: the report says the data could not be retrieved and
\* no indicator is computed; otherwise the frame is wrapped and the loop runs.
CheckFrame ==
    /\ market_pc = "frame"
    /\ IF raw_data_df = 0
       THEN /\ data_summary' = [kind |-> "report",
                                text |-> "Could not retrieve historical stock data"]
            /\ market_pc' = "done"
       ELSE /\ market_pc' = "loop"
            /\ UNCHANGED data_summary
    /\ UNCHANGED <<gvars, cvars, mvars, lvars, dvars, svars, rvars, market_state,
                   raw_data_df, indicator_values>>

\* One pass of `for key, name in indicators_to_calculate.items()`.
CalcIndicator ==
    /\ market_pc = "loop"
    /\ LET n == Cardinality(DOMAIN indicator_values)
           key == Indicators[n + 1]
       IN /\ \E o \in IndicatorOutcomes :
                indicator_values' = Put(indicator_values, key, IndicatorValue(o))
          /\ market_pc' = IF n + 1 = Len(Indicators) THEN "summary" ELSE "loop"
    /\ UNCHANGED <<gvars, cvars, mvars, lvars, dvars, svars, rvars, market_state,
                   raw_data_df, data_summary>>

\* data_summary: the title line and one table row per entry of indicator_values.
Summarize ==
    /\ market_pc = "summary"
    /\ data_summary' = [kind |-> "table",
                        title |-> SummaryTitle(market_state),
                        rows |-> [key \in DOMAIN indicator_values |->
                                     val_str(indicator_values[key])]]
    /\ market_pc' = "done"
    /\ UNCHANGED <<gvars, cvars, mvars, lvars, dvars, svars, rvars, market_state,
                   raw_data_df, indicator_values>>

InitMarket ==
    /\ GraphIdle /\ ClientIdle /\ MemoryIdle /\ SessionIdle /\ DataIdle /\ SignalIdle
    /\ RedditIdle
    /\ market_state \in [company_of_interest : Tickers, trade_date : Dates]
    /\ raw_data_df \in 0..MaxRows
    /\ indicator_values = EmptyDict
    /\ data_summary = [kind |-> "none"]
    /\ market_pc = "frame"

NextMarket ==
    \/ CheckFrame
    \/ CalcIndicator
    \/ Summarize

SpecMarket == InitMarket /\ [][NextMarket]_vars

----------------------------------------------------------------------------
\* The message-clearing node on its own: delete_messages applied to a state
\* whose log holds any messages.

LogMessages ==
    {HumanMessage("ticker"), HumanMessage("Continue"), AIMessage("text", FALSE),
     AIMessage("", TRUE), ToolMessage("data")}

InitMessages ==
    /\ provider = "google" /\ googleKey = TRUE /\ prawCreds = TRUE
    /\ marketTools = TRUE /\ max_debate_rounds = 1 /\ max_risk_discuss_rounds = 1
    /\ config = [max_debate_rounds |-> 1, max_risk_discuss_rounds |-> 1]
    /\ pc \in {<<"clear", a>> : a \in AnalystSet}
    /\ messages \in SeqsOf(LogMessages, MaxLog)
    /\ report = [a \in AnalystSet |-> "text"]
    /\ result = AIMessage("text", FALSE)
    /\ loops = 0
    /\ invest = [count |-> 0, last |-> "none"]
    /\ risk = [count |-> 0, last |-> "none"]
    /\ plans = {}
    /\ abortClass = "none" /\ abortAt = "none" /\ calls = 0
    /\ embAttempt = 0 /\ embSleeps = <<>>
    /\ ClientIdle /\ MemoryIdle /\ SessionIdle /\ DataIdle /\ FunctionsIdle

NextMessages == \E a \in AnalystSet : MsgClear(a)

SpecMessages == InitMessages /\ [][NextMessages]_vars

----------------------------------------------------------------------------
\* reddit_utils.fetch_top_from_category on a category directory.

\* The keys of ticker_to_company explored, and a ticker that is no key.
KnownTickers == {"AAPL", "MSFT"}
Queries == {"AAPL", "IBM"}

Categories == {"company_news", "global_news"}

\* A line of a subreddit file: the date of created_utc, ups, and whether
\* title or selftext mention the company searched for.
Posts ==
    [posted_date : 1..2, upvotes : 1..2, mentions : {TRUE}]
    \cup {[posted_date |-> 1, upvotes |-> 2, mentions |-> FALSE]}

\* A file of the directory: a .jsonl file with its lines, or another file.
DirFiles ==
    {[jsonl |-> TRUE, lines |-> ls] : ls \in SeqsOf(Posts, MaxPosts)}
    \cup {[jsonl |-> FALSE, lines |-> <<>>]}

\* The lines of a file that pass the date test and, for a company category
\* with a query, the search for the company's name.
Selected(lines, category, date, ticker_query) ==
    LET keep == {i \in 1..Len(lines) :
                    /\ lines[i].posted_date = date
                    /\ (category = "company_news" /\ ticker_query # "None") => lines[i].mentions}
        nth(r) == CHOOSE i \in keep : Cardinality({j \in keep : j < i}) = r - 1
    IN [r \in 1..Cardinality(keep) |-> lines[nth(r)]]

\* all_content_curr_subreddit.sort(key=lambda x: x["upvotes"], reverse=True):
\* a stable sort, most upvotes first.
sort_by_upvotes(posts) ==
    LET N == Len(posts)
        Rank(i) == 1 + Cardinality({j \in 1..N :
                          posts[j].upvotes > posts[i].upvotes
                          \/ (posts[j].upvotes = posts[i].upvotes /\ j < i)})
    IN [r \in 1..N |-> posts[CHOOSE i \in 1..N : Rank(i) = r]]

RECURSIVE Concat(_)
Concat(seqs) == IF seqs = <<>> THEN <<>> ELSE Head(seqs) \o Concat(Tail(seqs))

\* fetch_top_from_category(category, date, max_limit, ticker_query, data_path) on
\* the directory `dir`: how the call ends and what it hands back.
fetch_top_from_category(dir, category, date, max_limit, ticker_query) ==
    LET n == Len(dir)
        \* ticker_to_company[ticker_query] is evaluated for each line of the date
        lookup_fails ==
            /\ category = "company_news" /\ ticker_query # "None" /\ ticker_query \notin KnownTickers
            /\ \E i \in 1..n : dir[i].jsonl /\
                  \E l \in 1..Len(dir[i].lines) : dir[i].lines[l].posted_date = date
        ended(o, e, chunks) ==
            [category |-> category, date |-> date, max_limit |-> max_limit,
             query |-> ticker_query, outcome |-> o, error |-> e, per_file |-> chunks,
             all_content |-> Concat(chunks)]
    IN IF max_limit < n THEN ended("raised", "ValueError", <<>>)
       ELSE IF n = 0 THEN ended("raised", "ZeroDivisionError", <<>>)
       ELSE IF lookup_fails THEN ended("raised", "KeyError", <<>>)
       ELSE LET limit_per_subreddit == max_limit \div n
                top(i) == LET sorted == sort_by_upvotes(
                                  Selected(dir[i].lines, category, date, ticker_query))
                          IN SubSeq(sorted, 1, Min(limit_per_subreddit, Len(sorted)))
            IN ended("returned", "none",
                     [i \in 1..n |-> IF dir[i].jsonl THEN top(i) ELSE <<>>])

FetchTop(category, date, max_limit, ticker_query) ==
    /\ fetched.outcome = "none"
    /\ fetched' = fetch_top_from_category(category_dir, category, date, max_limit, ticker_query)
    /\ UNCHANGED <<gvars, cvars, mvars, lvars, dvars, svars, ivars, category_dir>>

InitReddit ==
    /\ GraphIdle /\ ClientIdle /\ MemoryIdle /\ SessionIdle /\ DataIdle
    /\ SignalIdle /\ MarketIdle
    /\ category_dir \in SeqsOf(DirFiles, MaxFiles)
    /\ fetched = NoFetch

NextReddit ==
    \E category \in Categories, date \in 1..2, max_limit \in 0..MaxLimit,
       ticker_query \in Queries \cup {"None"} :
        FetchTop(category, date, max_limit, ticker_query)

SpecReddit == InitReddit /\ [][NextReddit]_vars

----------------------------------------------------------------------------
\* Properties.

NoDup(seq) == \A i, j \in 1..Len(seq) : i # j => seq[i] # seq[j]

Debaters == {Node("Bull Researcher"), Node("Bear Researcher")}

Running(a, p) == p[1] \in {"analyst", "inside"} /\ p[2] = a

\* The step is the return of analyst a's node to the graph.
Returns(a) == Running(a, pc) /\ ~Running(a, pc') /\ pc' # Aborted

\* The tool loop of analyst a, as a property of one step.
ToolLoop(a) ==
    /\ (Returns(a) /\ result'.tool_calls) => pc' = <<"tools", a>>
    /\ pc' = <<"clear", a>> => ~result'.tool_calls
    /\ pc = <<"tools", a>> =>
          /\ pc' = <<"analyst", a>>
          /\ Len(messages') = Len(messages) + 1
          /\ SubSeq(messages', 1, Len(messages)) = messages
          /\ Last(messages').type = "tool"

\* C2 as stated: for every analyst, the market analyst included, a model
\* response with a tool call is followed by the tool node, whose result is
\* appended to the log before the same analyst runs again; the graph does
\* not go on while the analyst's model response carries a tool call.
C2_ToolLoopAllAnalysts == [][\A a \in AnalystSet : ToolLoop(a)]_vars

\* C2, amended: the tool loop holds for the social, news and fundamentals
\* analysts.  The market analyst never reaches its tool node: it answers a
\* tool call inside the node and returns a message without tool calls, after
\* which the graph goes on.
C2_ToolLoop ==
    [][/\ \A a \in ToolLoopAnalysts : ToolLoop(a)
       /\ pc' # <<"tools", "market">>
       /\ Returns("market") =>
             /\ pc' = <<"clear", "market">>
             /\ ~Last(messages').tool_calls]_vars

\* An analyst runs again with the tool result at the end of its log.
C2_Witness ==
    /\ pc = <<"analyst", "news">>
    /\ Len(messages) = 3
    /\ Last(messages).type = "tool"
    /\ messages[2].tool_calls

\* C3: with add_situations calls made one after the other, no identifier is
\* handed to the collection twice, the stored records have pairwise distinct
\* identifiers, and they are numbered upward from 0 in insertion order.
C3_UniqueIds ==
    /\ NoDup(assigned)
    /\ \A i \in 1..Len(collection) : collection[i].id = i - 1
    /\ \A i, j \in 1..Len(collection) :
          i # j => collection[i].id # collection[j].id

\* Two batches have been stored.
C3_Witness ==
    /\ Len(collection) >= 3
    /\ \E i, j \in 1..Len(collection) : collection[i].doc[1] # collection[j].doc[1]
    /\ \A c \in Callers : mpc[c] = "idle"

\* C4 as stated: when add_situations calls interleave, no identifier is given
\* to two records and no record handed to the collection is lost or rejected.
C4_ConcurrentAppend ==
    /\ NoDup(assigned)
    /\ rejected = {}

\* C5 as stated: invoke never raises; it always ends with a message.
C5_InvokeNeverRaises ==
    /\ outcome # "raised"
    /\ cpc = "done" => outcome # "none"

\* C6: the retry protocol of invoke.  At most max_retries requests; the n-th
\* wait lasts n seconds and follows the n-th failed attempt; a successful
\* response ends the call; no wait follows the last request; the call ends.
C6_Counts ==
    /\ requests <= max_retries
    /\ \A i \in 1..Len(sleeps) : sleeps[i] = i
    /\ cpc = "sending" => Len(sleeps) = requests /\ requests < max_retries
    /\ cpc = "sleeping" => Len(sleeps) = requests - 1 /\ requests < max_retries
                            /\ lastResp \notin Success
    /\ cpc = "done" => Len(sleeps) = requests - 1
    /\ lastResp \in Success => cpc = "done" /\ outcome = lastResp

C6_RetryProtocol == []C6_Counts /\ (cpc = "sending" ~> cpc = "done")

\* A call that used every attempt.
C6_Witness ==
    /\ cpc = "done"
    /\ requests = max_retries
    /\ sleeps = <<1, 2, 3, 4>>

\* C7 as stated: a transient failure while the trader node retrieves memories
\* does not leave the node.
C7_TransientStaysLocal ==
    ~(pc = Aborted /\ abortAt = "Trader" /\ abortClass = "transient")

C9_ConfigErrorsAtEntry ==
    /\ (pc = Aborted /\ abortClass = "config") => calls = 0
    /\ \A i \in 1..Len(messages) :
          messages[i].content # "no posts (no credentials)"

\* C10 as stated: an exception of a tool invocation never leaves the node.
C10_ToolErrorsCaught ==
    ~(pc = Aborted /\ abortClass = "tool")

----------------------------------------------------------------------------
\* C11: once the graph is constructed, the round limits that debate routing
\* compares against are the limits given in the configuration, the debate
\* limit from config["max_debate_rounds"] and the risk limit from
\* config["max_risk_discuss_rounds"].
Constructed == pc # <<"init">> /\ ~(pc = Aborted /\ abortAt = "init")

C11_LimitsFromConfig ==
    Constructed =>
        /\ max_debate_rounds = config.max_debate_rounds
        /\ max_risk_discuss_rounds = config.max_risk_discuss_rounds

----------------------------------------------------------------------------
\* C12: in each debate the round counter goes up by exactly one with every
\* debater turn and no step lowers or resets it; a debate that has started
\* therefore reaches its round limit and the judge runs: the investment judge
\* with the investment counter at max_debate_rounds, the risk judge with the
\* risk counter at max_risk_discuss_rounds.
RiskDebaters == {Node(RiskRoles[i] \o " Analyst") : i \in 1..3}

C12_CounterStep ==
    /\ invest'.count >= invest.count
    /\ risk'.count >= risk.count
    /\ pc \in Debaters => invest'.count = invest.count + 1
    /\ pc \in RiskDebaters => risk'.count = risk.count + 1

\* C12: every step keeps or raises the counters, every debater turn raises
\* its counter by one, and each debate that started ends with its judge
\* having run at the round limit.
C12_DebatesTerminate ==
    /\ [][C12_CounterStep]_vars
    /\ (pc \in Debaters) ~>
           ("investment_plan" \in plans /\ invest.count = max_debate_rounds)
    /\ (pc \in RiskDebaters) ~>
           ("final_trade_decision" \in plans /\ risk.count = max_risk_discuss_rounds)

C12_Witness ==
    /\ pc = <<"end">> /\ "final_trade_decision" \in plans
    /\ invest.count = max_debate_rounds /\ max_debate_rounds = MaxRounds
    /\ risk.count = max_risk_discuss_rounds /\ max_risk_discuss_rounds = MaxRiskRounds

\* C13: the speakers of the risk debate follow the cycle risky, safe,
\* neutral, starting with risky: the n-th turn (counted from 0) is taken by
\* RiskRoles[(n mod 3) + 1], every turn hands over to the next role of the
\* cycle, so no role speaks twice in a row and none is skipped.
Successor(role) ==
    IF role = "Risky" THEN "Safe" ELSE IF role = "Safe" THEN "Neutral" ELSE "Risky"

C13_NthSpeaker ==
    /\ risk.count > 0 => risk.last = RiskRoles[((risk.count - 1) % 3) + 1]
    /\ risk.count = 0 => risk.last = "none"
    /\ \A i \in 1..3 :
          pc = Node(RiskRoles[i] \o " Analyst") => i = (risk.count % 3) + 1

C13_Handover ==
    risk' # risk =>
        /\ risk'.last = IF risk.last = "none" THEN "Risky" ELSE Successor(risk.last)
        /\ risk'.last # risk.last

\* C13: the n-th risk speaker is RiskRoles[(n mod 3) + 1] in every state and
\* every risk turn hands over to the next role of the cycle.
C13_RiskCycle == [](C13_NthSpeaker) /\ [][C13_Handover]_vars

C13_Witness ==
    /\ risk.count = 4 /\ risk.last = "Risky"
    /\ pc = Node("Risk Judge")

----------------------------------------------------------------------------
\* The update analyst a's node returns touches the log and a's own report
\* only: one message is appended, the other reports, both debate states and
\* the plans stay as they were.
Frame(a) ==
    /\ Len(messages') = Len(messages) + 1
    /\ SubSeq(messages', 1, Len(messages)) = messages
    /\ \A b \in AnalystSet \ {a} : report'[b] = report[b]
    /\ invest' = invest /\ risk' = risk /\ plans' = plans

\* C14 as stated: the update an analyst node returns sets exactly its own
\* report field and appends the model's message (the response to the node's
\* invocation of the model with the log) to the log, leaving every other
\* state field untouched; when that response has no tool calls the report is
\* the response text.
C14_AnalystUpdateAsStated ==
    [][\A a \in AnalystSet :
          Returns(a) =>
              /\ Frame(a)
              /\ Last(messages') = result'
              /\ ~result'.tool_calls => report'[a] = result'.content]_vars

\* C14, amended: as stated for the social, news and fundamentals analysts and
\* for a market-analyst response without tool calls; when the market
\* analyst's response carries a tool call, the appended message is a new
\* message without tool calls whose text is the market report of the same
\* update.
C14_AnalystUpdate ==
    [][\A a \in AnalystSet :
          Returns(a) =>
              /\ Frame(a)
              /\ (a # "market" \/ ~result'.tool_calls) => Last(messages') = result'
              /\ (a = "market" /\ result'.tool_calls) =>
                     Last(messages') = AIMessage(report'[a], FALSE)
              /\ ~result'.tool_calls => report'[a] = result'.content]_vars

C14_Witness ==
    /\ pc = <<"clear", "market">>
    /\ result.tool_calls
    /\ report["market"] = "text"
    /\ Last(messages) = AIMessage("text", FALSE)

----------------------------------------------------------------------------
\* C15: a get_memories call whose query embedding was obtained returns; its
\* matches are in order of descending similarity (1 - distance); it hands
\* back n_matches records, or every stored record when fewer than n_matches
\* are stored (none from an empty collection); the call raises only when the
\* embedding call does.
Descending(ms) ==
    \A i, j \in 1..Len(ms) :
        i < j => ms[i].similarity_score >= ms[j].similarity_score

C15_GetMemoriesStep ==
    memories' # memories =>
        /\ memories'.outcome = "raised" => memories'.at = "get_embedding"
        /\ memories'.outcome = "returned" =>
              LET ms == memories'.matches
                  k == memories'.n_matches
              IN /\ Descending(ms)
                 /\ Len(ms) = Min(k, Count(collection))
                 /\ \A i \in 1..Len(ms) :
                       \E r \in 1..Len(collection) :
                          ms[i].matched_situation = collection[r].doc
                 /\ Count(collection) < k =>
                       {ms[i].matched_situation : i \in 1..Len(ms)}
                          = {collection[r].doc : r \in 1..Len(collection)}

\* C15: every get_memories call hands back its matches in descending
\* similarity, all stored records when fewer than n_matches are stored.
C15_GetMemories == [][C15_GetMemoriesStep]_vars

C15_Witness ==
    /\ memories.outcome = "returned"
    /\ memories.n_matches = 3
    /\ Len(memories.matches) = 2 /\ Count(collection) = 2
    /\ memories.matches[1].similarity_score > memories.matches[2].similarity_score
    /\ memories.matches[1].matched_situation = collection[2].doc

----------------------------------------------------------------------------
\* C16: the persisted log is append-only per ticker directory: once a
\* propagate call has written the entry of a (ticker, date) run to that run's
\* log file, no later propagate call, for the same date or another one,
\* overwrites, changes or drops that entry.
C16_EntryKept ==
    \A t \in Tickers, d \in Dates :
        LogFile(t, d) \in DOMAIN files =>
            /\ LogFile(t, d) \in DOMAIN files'
            /\ d \in DOMAIN files'[LogFile(t, d)]
            /\ files'[LogFile(t, d)][d] = files[LogFile(t, d)][d]

\* C16: no step changes or drops an entry already written to a log file.
C16_AppendOnly == [][C16_EntryKept]_vars

\* C17: what a propagate run sees does not depend on what else ran in the
\* process: the configuration its toolkit hands it is the configuration its
\* own graph instance was constructed with.
C17_RunsIndependent ==
    seen.graph \in Graphs => seen.config = graph_config[seen.graph]

----------------------------------------------------------------------------
\* C18: an offline get_stock_stats call is unaffected by the calls made
\* before it: it ends as the same call ends on a cache that holds nothing,
\* whatever earlier calls for the symbol (another date, online=True) did.
C18_OfflineUnaffected ==
    (ret.fn = "get_stock_stats" /\ ~ret.online) =>
        LET alone == stock_stats(EmptyDict, data_files, ret.symbol, ret.day, FALSE)
        IN ret.outcome = alone.outcome /\ ret.value = alone.value

\* C19: a data function whose offline data file does not exist hands back a
\* 'not available' text and does not raise.
NotAvailableTexts == {NotTradingDay, FileNotFoundText, InsiderNotFoundText}

C19_MissingFileText ==
    ret.file_missing => (ret.outcome = "returned" /\ ret.value \in NotAvailableTexts)

\* C20: a data function whose upstream dataset is empty hands back an
\* explicit, non-empty 'not available' text, never the empty string.
C20_EmptyDatasetText ==
    ret.dataset_empty =>
        (ret.outcome = "returned" /\ ret.value # "" /\ ret.value \in NotAvailableTexts)

----------------------------------------------------------------------------
\* The signal word that follows the first marker of the text, if there is one.
MarkedSignal(text) ==
    LET at == {i \in 1..Len(text) : text[i] = Marker}
    IN {text[i + 1] : i \in {j \in at : j < Len(text) /\ \A k \in at : j <= k}} \cap Signals

C21_Extracts ==
    decision.outcome # "none" =>
        /\ decision.outcome = "returned"
        /\ decision.value # ""
        /\ decision.value \in Signals \cup {Fallback}
        /\ \A w \in MarkedSignal(decision.full_signal) : decision.value = w
        /\ (\A i \in 1..Len(decision.full_signal) : decision.full_signal[i] # Marker)
              => decision.value = Fallback

C21_SameTextSameSignal ==
    (decision.outcome # "none" /\ decision'.full_signal = decision.full_signal)
        => decision'.value = decision.value

----------------------------------------------------------------------------
IndicatorSet == {Indicators[i] : i \in 1..Len(Indicators)}

\* C22: the indicator computation never raises; on a frame with fewer than
\* 2 rows every one of the six indicators is reported as "not enough data";
\* an indicator whose computation fails still leaves the other five computed.
C22_NotEnoughData ==
    market_pc = "done" =>
        /\ data_summary.kind \in {"table", "report"}
        /\ raw_data_df < 2 =>
              /\ data_summary.kind = "table"
              /\ DOMAIN data_summary.rows = IndicatorSet
              /\ \A key \in IndicatorSet : data_summary.rows[key] = "not enough data"
        /\ data_summary.kind = "table" => DOMAIN data_summary.rows = IndicatorSet

\* C29: the table handed to the model for narration is titled with the
\* ticker and the trade date of the state the node runs on.
C29_TableLabel ==
    data_summary.kind = "table" =>
        data_summary.title = <<market_state.company_of_interest, market_state.trade_date>>

----------------------------------------------------------------------------
\* The days for which price data exists: every trading day upstream, the
\* days of the offline price file offline.
PriceDays(online) ==
    IF online THEN Days
    ELSE IF "YFin-data" \in data_files THEN {x \in Days : x <= OfflineEnd} ELSE {}

\* C23: whenever price data exists for curr_date, get_stock_stats returns
\* the indicator value of the row dated curr_date; it hands back the
\* 'N/A: Not a trading day...' text only when no such data exists; an online
\* call therefore finds the row of curr_date in the range it loads.
C23_RowOfCurrDate ==
    ret.fn = "get_stock_stats" =>
        /\ ret.day \in PriceDays(ret.online) =>
               /\ ret.outcome = "returned"
               /\ ret.value = "value of day " \o ToString(ret.day)
        /\ ret.value = NotTradingDay => ret.day \notin PriceDays(ret.online)

----------------------------------------------------------------------------
\* What C24 asks of one step of the clearing node.
\* C24: the update delete_messages returns, applied to a state whose log
\* holds any number of messages, leaves the log holding exactly one
\* message, the "Continue" placeholder: every earlier message is removed,
\* and the reports, both debate states and the plans are as they were.
C24_ClearStep ==
    (\E a \in AnalystSet : pc = <<"clear", a>>) =>
        /\ messages' = <<HumanMessage("Continue")>>
        /\ report' = report /\ invest' = invest /\ risk' = risk /\ plans' = plans

C24_DeleteMessages == [][C24_ClearStep]_vars

\* The log has been cleared after the last analyst.
C24_Witness ==
    /\ pc = Node("Bull Researcher")
    /\ messages = <<HumanMessage("Continue")>>
    /\ report = [a \in AnalystSet |-> "text"]

----------------------------------------------------------------------------
\* C25: in a constructed graph, whatever the provider, the market tool list
\* of _create_tool_nodes holds a tool named get_daily_stock_data, and no run
\* ends with the market analyst's 'required tool not found' error.
C25_MarketToolPresent ==
    Constructed =>
        /\ "get_daily_stock_data" \in analyst_tools(provider).market
        /\ ~(pc = Aborted /\ abortAt = "market" /\ abortClass = "config")

----------------------------------------------------------------------------
\* The list of the latest bind_tools call made with a list that is not
\* empty; "None" when there was no such call.
LatestBound(bs) ==
    LET at == {i \in 1..Len(bs) : bs[i] # "empty"}
    IN IF at = {} THEN "None" ELSE bs[CHOOSE i \in at : \A j \in at : j <= i]

\* What C26 asks of one step: an invoke builds its request from the bound
\* tools and leaves them bound; a step that is no bind_tools call leaves
\* them as they are; so does bind_tools with an empty list.
C26_Step ==
    /\ invokes' # invokes =>
          /\ payloadTools' = IF LatestBound(binds) = "None" THEN "absent"
                             ELSE LatestBound(binds)
          /\ tools' = tools
    /\ binds' = binds => tools' = tools
    /\ (binds' # binds /\ Last(binds') = "empty") => tools' = tools

\* C26: a request carries tool declarations exactly when bind_tools was
\* called before with a list that is not empty, and then those of the latest
\* such call; invoke and bind_tools([]) leave the bound tools unchanged.
C26_BoundTools == [](tools = LatestBound(binds)) /\ [][C26_Step]_vars

\* A request sent after a bind, then an empty bind: it carries the tools
\* of the first.
C26_Witness ==
    /\ cpc = "sending"
    /\ binds = <<"news tools", "social tools", "empty">>
    /\ payloadTools = "social tools"
    /\ invokes = 2

----------------------------------------------------------------------------
\* C27: every log file, written under a ticker's directory and named by a
\* date, holds entries of runs made for that ticker only, and its entry
\* under that date is the entry of a run for that ticker and that date.
C27_LogOfTicker ==
    \A t \in Tickers, d \in Dates :
        LogFile(t, d) \in DOMAIN files =>
            /\ \A k \in DOMAIN files[LogFile(t, d)] :
                   files[LogFile(t, d)][k].company_of_interest = t
            /\ d \in DOMAIN files[LogFile(t, d)]
            /\ files[LogFile(t, d)][d].trade_date = d

----------------------------------------------------------------------------
\* What C28 asks of one step.  curr_state changes only in a propagate call
\* whose graph run completes, and is then the final state that call logs; a
\* reflect_and_remember call made after a completed propagate hands
\* curr_state, the final state of the latest completed propagate, to the
\* reflector, calls it for a role only after the roles before it in the order
\* bull, bear, trader, investment judge, risk manager, each with that role's
\* own memory, and when it returns it has called each of the five once.
C28_Step ==
    /\ \A g \in Graphs :
          (curr_state'[g] # curr_state[g] /\ g \in DOMAIN graph_config) =>
              /\ seen'.graph = g
              /\ curr_state'[g].company_of_interest = ticker'[g]
              /\ curr_state'[g].trade_date \in DOMAIN log_states_dict'[g]
              /\ log_states_dict'[g][curr_state'[g].trade_date] = LogEntry(curr_state'[g])
              /\ files'[LogFile(ticker'[g], curr_state'[g].trade_date)]
                    [curr_state'[g].trade_date] = LogEntry(curr_state'[g])
    /\ (files' # files \/ log_states_dict' # log_states_dict) =>
          \E g \in Graphs :
              /\ seen'.graph = g
              /\ log_states_dict'[g][curr_state'[g].trade_date] = LogEntry(curr_state'[g])
    /\ (reflected'.outcome # "none" /\ curr_state[reflected'.graph] # NoState) =>
          LET r == reflected'
              order == <<"bull_researcher", "bear_researcher", "trader", "invest_judge",
                         "risk_manager">>
          IN /\ r.state = curr_state[r.graph]
             /\ curr_state' = curr_state
             /\ Len(r.calls) <= 5
             /\ \A i \in 1..Len(r.calls) :
                    /\ r.calls[i].role = order[i]
                    /\ r.calls[i].memory =
                          <<"bull_memory", "bear_memory", "trader_memory",
                            "invest_judge_memory", "risk_manager_memory">>[i]
             /\ r.outcome = "returned" => Len(r.calls) = 5

\* C28: curr_state is the final state of the latest completed propagate and
\* reflect_and_remember reflects on it, role by role in the fixed order, each
\* role with its own memory.
C28_ReflectOnLatest == [][C28_Step]_vars

\* A reflect_and_remember call returned after two propagate calls on its
\* graph: it reflected on the final state of the second.
C28_Witness ==
    /\ reflected.outcome = "returned"
    /\ reflected.graph \in Graphs
    /\ reflected.state = [company_of_interest |-> "MSFT", trade_date |-> "2024-06-04",
                          final_trade_decision |-> "SELL"]
    /\ "2024-06-03" \in DOMAIN log_states_dict[reflected.graph]
    /\ Len(reflected.calls) = 5

----------------------------------------------------------------------------
\* C30: fetch_top_from_category either raises ValueError, which it does when
\* max_limit is smaller than the number of files of the category directory,
\* or it returns: at most max_limit posts in all, at most
\* max_limit // (number of files) from each file, every post dated the
\* requested date, each file's posts in descending order of upvotes.
C30_FetchTop ==
    fetched.outcome # "none" =>
        LET n == Len(category_dir)
        IN /\ fetched.max_limit < n =>
                 (fetched.outcome = "raised" /\ fetched.error = "ValueError")
           /\ fetched.outcome = "raised" => fetched.error = "ValueError"
           /\ fetched.outcome = "returned" =>
                 /\ Len(fetched.all_content) <= fetched.max_limit
                 /\ \A i \in 1..Len(fetched.all_content) :
                        fetched.all_content[i].posted_date = fetched.date
                 /\ \A f \in 1..Len(fetched.per_file) :
                        LET chunk == fetched.per_file[f]
                        IN /\ Len(chunk) <= fetched.max_limit \div n
                           /\ \A i, j \in 1..Len(chunk) :
                                  i < j => chunk[i].upvotes >= chunk[j].upvotes

====
